---- MODULE Spec2Model ----
(***************************************************************************)
(* Flight-search backends of voaraapp/flight-search-backend.               *)
(*                                                                         *)
(* The repository holds five small Express programs; one process runs one  *)
(* of them:                                                                *)
(*   "sky"     src/server.js 1-155          Sky-Scrapper proxy             *)
(*   "flexCJS" src/server.js 156-269        round-trip + flexible search   *)
(*   "counter" src/unnamed/part_000         proxy with the request counter *)
(*   "flexESM" src/unnamed/part_001 1-115   round-trip + flexible search   *)
(*   "kiwi"    src/unnamed/part_001 117-283 Kiwi.com proxy                 *)
(*                                                                         *)
(* A handler runs to its next await in one step: HTTP handlers of one Node *)
(* process interleave only at awaits.                                      *)
(***************************************************************************)
EXTENDS Integers, Sequences, FiniteSets, TLC

VARIABLES
    variant,        \* which of the five programs this process runs
    apiKey,         \* TRUE iff the API key is set in the process environment
    tz,             \* time-zone offset of the process, hours east of UTC
    requestCount,   \* part_000: let requestCount
    reqs,           \* request slot -> the handler invocation serving it
    dateStr,        \* SpecDate: the argument of formatDate
    wire            \* SpecDate: the value formatDate returned

vars == <<variant, apiKey, tz, requestCount, reqs, dateStr, wire>>

(***************************************************************************)
(* Bounds of the model.                                                    *)
(***************************************************************************)
\* requests the process serves concurrently
MaxReqs == 2
\* largest number of (departure, arrival) pairs of one flexible search
MaxPairs == 2
\* SpecBudget: the value of requestCount up to which further requests arrive
MaxCount == 152

Slots == 1..MaxReqs

(***************************************************************************)
(* JavaScript values.  A value is a record tagged by its type; a property  *)
(* of an object is a field of the record, an absent property is an absent  *)
(* field.                                                                  *)
(***************************************************************************)
Undefined == [t |-> "undefined"]
Null == [t |-> "null"]
Str(s) == [t |-> "string", s |-> s]
Num(n) == [t |-> "number", n |-> n]
\* a string of decimal digits, most significant first ("450" is <<4, 5, 0>>)
Digits(ds) == [t |-> "digits", ds |-> ds]
Arr(es) == [t |-> "array", elems |-> es]
\* an ISO calendar date string YYYY-MM-DD
IsoDate(y, m, d) == [t |-> "isodate", y |-> y, m |-> m, d |-> d]

IsNullish(x) == x.t \in {"undefined", "null"}

\* !x
Falsy(x) ==
    \/ IsNullish(x)
    \/ x.t = "string" /\ x.s = ""
    \/ x.t = "digits" /\ x.ds = <<>>
    \/ x.t = "number" /\ x.n = 0

\* x.f on a value that is not nullish
Get(x, f) == IF f \in DOMAIN x THEN x[f] ELSE Undefined

\* x?.f
OptGet(x, f) == IF IsNullish(x) THEN Undefined ELSE Get(x, f)

\* x?.[0]
OptFirst(x) ==
    IF x.t = "array" /\ Len(x.elems) > 0 THEN x.elems[1] ELSE Undefined

\* x?.length
OptLength(x) == IF x.t = "array" THEN Num(Len(x.elems)) ELSE Undefined

\* a ?? b
Coalesce(a, b) == IF IsNullish(a) THEN b ELSE a

\* a || b
OrElse(a, b) == IF Falsy(a) THEN b ELSE a

RECURSIVE DigitsValue(_)
DigitsValue(ds) ==
    IF ds = <<>> THEN 0
    ELSE 10 * DigitsValue(SubSeq(ds, 1, Len(ds) - 1)) + ds[Len(ds)]

\* parseFloat on a number or on a string of decimal digits
parseFloat(x) == IF x.t = "number" THEN x.n ELSE DigitsValue(x.ds)

(***************************************************************************)
(* A function that may throw returns [threw |-> TRUE] or its value.        *)
(***************************************************************************)
Threw == [threw |-> TRUE]
Returned(v) == [threw |-> FALSE, val |-> v]

(***************************************************************************)
(* formatItineraryResponse, src/server.js 173-193 ("flexCJS") and          *)
(* src/unnamed/part_001 93-112 ("flexESM").                                *)
(***************************************************************************)
\* the callback of itineraries.map in src/server.js; itin is not nullish
ItineraryCJS(itin, dep, arr) ==
    LET outSeg == OptFirst(OptGet(OptGet(itin, "outbound"), "sectorSegments"))
        inSeg == OptFirst(OptGet(OptGet(itin, "inbound"), "sectorSegments"))
    IN  [from |-> dep,
         to |-> arr,
         outDeparture |-> OptGet(outSeg, "departure"),
         outArrival |-> OptGet(outSeg, "arrival"),
         returnDeparture |-> OptGet(inSeg, "departure"),
         returnArrival |-> OptGet(inSeg, "arrival"),
         stopsOutbound |-> Coalesce(OptLength(OptGet(outSeg, "stops")), Num(0)),
         stopsInbound |-> Coalesce(OptLength(OptGet(inSeg, "stops")), Num(0)),
         airline |-> Coalesce(OptGet(outSeg, "carrierName"), Str("Unknown")),
         price |-> parseFloat(OrElse(OptGet(Get(itin, "price"), "amount"),
                                     Digits(<<0>>)))]

\* the callback of itineraries.map in part_001; itin is not nullish
ItineraryESM(itin, dep, arr) ==
    LET outSeg == OptFirst(OptGet(OptGet(itin, "outbound"), "sectorSegments"))
        inSeg == OptFirst(OptGet(OptGet(itin, "inbound"), "sectorSegments"))
    IN  [from |-> dep,
         to |-> arr,
         outDeparture |-> Coalesce(OptGet(outSeg, "departure"), Null),
         outArrival |-> Coalesce(OptGet(outSeg, "arrival"), Null),
         returnDeparture |-> Coalesce(OptGet(inSeg, "departure"), Null),
         returnArrival |-> Coalesce(OptGet(inSeg, "arrival"), Null),
         stopsOutbound |-> Coalesce(OptLength(OptGet(outSeg, "stops")), Num(0)),
         stopsInbound |-> Coalesce(OptLength(OptGet(inSeg, "stops")), Num(0)),
         airline |-> Coalesce(OptGet(outSeg, "carrierName"), Str("Unknown")),
         price |-> parseFloat(OrElse(OptGet(Get(itin, "price"), "amount"),
                                     Num(0)))]

\* itin.outbound on a null or undefined element of the list is a TypeError,
\* and so is .map on a value that is no array
formatItineraryResponse(v, data, dep, arr) ==
    LET itineraries == OptGet(OptGet(data, "data"), "itineraries")
    IN  IF Falsy(itineraries) THEN Returned(<<>>)
        ELSE IF itineraries.t # "array" THEN Threw
        ELSE IF \E k \in 1..Len(itineraries.elems) :
                    IsNullish(itineraries.elems[k]) THEN Threw
        ELSE Returned([k \in 1..Len(itineraries.elems) |->
                        IF v = "flexCJS"
                        THEN ItineraryCJS(itineraries.elems[k], dep, arr)
                        ELSE ItineraryESM(itineraries.elems[k], dep, arr)])

(***************************************************************************)
(* allResults.sort((a, b) => a.price - b.price): Array.prototype.sort is   *)
(* stable, and the prices are numbers, so the result is determined.        *)
(***************************************************************************)
ComparePriceDescending(a, b) == b.price - a.price

ComparePrice(a, b) == a.price - b.price

\* x placed behind every element of the sorted s that does not follow it
RECURSIVE Insert(_, _)
Insert(x, s) ==
    IF s = <<>> THEN <<x>>
    ELSE IF ComparePrice(s[Len(s)], x) <= 0 THEN Append(s, x)
    ELSE Append(Insert(x, SubSeq(s, 1, Len(s) - 1)), s[Len(s)])

RECURSIVE SortByPrice(_)
SortByPrice(s) ==
    IF s = <<>> THEN <<>>
    ELSE Insert(s[Len(s)], SortByPrice(SubSeq(s, 1, Len(s) - 1)))

(***************************************************************************)
(* What the upstream may answer.                                           *)
(***************************************************************************)
Obj == [t |-> "object"]

FullSeg ==
    [t |-> "object", departure |-> Str("T1"), arrival |-> Str("T2"),
     stops |-> Arr(<<Str("AMS")>>), carrierName |-> Str("BA")]

DirectSeg ==
    [t |-> "object", departure |-> Str("T3"), arrival |-> Str("T4"),
     stops |-> Arr(<<>>), carrierName |-> Str("KL")]

FullItin(ds) ==
    [t |-> "object",
     price |-> [t |-> "object", amount |-> Digits(ds)],
     outbound |-> [t |-> "object", sectorSegments |-> Arr(<<FullSeg>>)],
     inbound |-> [t |-> "object", sectorSegments |-> Arr(<<DirectSeg>>)]]

\* no price, no outbound, no inbound
BareItin == Obj

\* price without amount, outbound without segments, inbound with none
PartialItin ==
    [t |-> "object", price |-> Obj, outbound |-> Obj,
     inbound |-> [t |-> "object", sectorSegments |-> Arr(<<>>)]]

\* an empty amount, a segment without stops and without carrierName
SegOnlyItin ==
    [t |-> "object",
     price |-> [t |-> "object", amount |-> Digits(<<>>)],
     outbound |-> [t |-> "object", sectorSegments |-> Arr(<<Obj>>)]]

Itineraries(l) ==
    [t |-> "object", data |-> [t |-> "object", itineraries |-> l]]

\* an error payload: an object without data
ErrorBody == [t |-> "object", message |-> Str("Too many requests")]

\* the parsed bodies of a success status
OkBodies ==
    {Null, ErrorBody,
     Itineraries(Arr(<<>>)),
     Itineraries(Arr(<<FullItin(<<7>>)>>)),
     Itineraries(Arr(<<FullItin(<<1, 2>>), FullItin(<<3>>)>>)),
     Itineraries(Arr(<<BareItin>>)),
     Itineraries(Arr(<<PartialItin, SegOnlyItin>>)),
     Itineraries(Arr(<<FullItin(<<3>>), Null>>)),
     Itineraries(Obj)}

\* the parsed bodies of a non-success status
FailBodies == {Null, ErrorBody, Itineraries(Arr(<<FullItin(<<7>>)>>))}

\* response.status, as far as the handlers tell statuses apart: only kiwi
\* treats 401 apart
StatusesOf(v) == IF v = "kiwi" THEN {200, 401, 500} ELSE {200, 500}

\* response.ok
ResponseOk(status) == status >= 200 /\ status <= 299

\* what the programs that relay the payload may receive
RelayBodies == {Null, ErrorBody, Itineraries(Arr(<<FullItin(<<7>>)>>))}

\* what POST /api/search may receive
SearchBodies == RelayBodies \cup {Itineraries(Arr(<<Null>>))}

BodiesOf(route, status) ==
    IF route = "searchFlex"
    THEN (IF ResponseOk(status) THEN OkBodies ELSE FailBodies)
    ELSE IF route = "search" THEN SearchBodies
    ELSE RelayBodies

(***************************************************************************)
(* formatDate, part_001 164-170.  new Date("YYYY-MM-DD") is midnight UTC   *)
(* of that day; getDate, getMonth and getFullYear read the local calendar, *)
(* tz hours east of UTC.                                                   *)
(***************************************************************************)
IsLeap(y) == (y % 4 = 0 /\ y % 100 # 0) \/ y % 400 = 0

DaysInMonth(y, m) ==
    IF m = 2 THEN (IF IsLeap(y) THEN 29 ELSE 28)
    ELSE IF m \in {4, 6, 9, 11} THEN 30 ELSE 31

PrevDay(dt) ==
    IF dt.d > 1 THEN [dt EXCEPT !.d = @ - 1]
    ELSE IF dt.m > 1
         THEN [dt EXCEPT !.m = @ - 1, !.d = DaysInMonth(dt.y, dt.m - 1)]
    ELSE [dt EXCEPT !.y = @ - 1, !.m = 12, !.d = 31]

\* the local calendar day at midnight UTC of dt, for -24 < zone < 24
LocalDay(dt, zone) == IF zone < 0 THEN PrevDay(dt) ELSE dt

\* String(n).padStart(2, '0')
PadStart2(n) == IF n < 10 THEN "0" \o ToString(n) ELSE ToString(n)

formatDate(dt, zone) ==
    LET d == LocalDay(dt, zone)
    IN  Str(PadStart2(d.d) \o "/" \o PadStart2(d.m) \o "/" \o ToString(d.y))

(***************************************************************************)
(* A handler invocation.                                                   *)
(*   pc        "idle", "fetch" (awaiting fetch), "json" (awaiting          *)
(*             response.json()), "done" (the handler returned)             *)
(*   route     the handler                                                 *)
(*   q         req.query or req.body, the fields the handler reads         *)
(*   calls     the upstream calls this invocation issued                   *)
(*   sent      the responses written to res                                *)
(*   response  response.status of the settled fetch                        *)
(*   i, j      searchFlex: position of dep in departures, arr in arrivals  *)
(*   allResults  searchFlex: let allResults                                *)
(*   log       what the upstream did to each call, for the properties      *)
(***************************************************************************)
Idle ==
    [pc |-> "idle", route |-> "none", q |-> Obj, calls |-> <<>>,
     sent |-> <<>>, response |-> 0, i |-> 0, j |-> 0, allResults |-> <<>>,
     log |-> <<>>]

\* the handler of route starts on the request q
Accept(route, q) == [Idle EXCEPT !.route = route, !.q = q]

\* res.status(status).json(body), and the handler returns
Respond(rq, status, body) ==
    [rq EXCEPT !.pc = "done",
               !.sent = Append(@, [status |-> status, body |-> body])]

\* fetch(url, ...) is called and the handler awaits it
Fetch(rq, endpoint, params) ==
    [rq EXCEPT !.pc = "fetch",
               !.calls = Append(@, [endpoint |-> endpoint, params |-> params])]

\* String(x) of a query or body value
ToJSString(x) ==
    IF x.t = "undefined" THEN Str("undefined")
    ELSE IF x.t = "null" THEN Str("null")
    ELSE x

\* `${x}-sky`
SkyId(x) == Str(ToJSString(x).s \o "-sky")

\* the catch block of the handlers of sky, counter and kiwi
InternalError(rq) ==
    Respond(rq, 500, [error |-> "Internal server error"])

\* the catch block of the handlers of flexCJS and flexESM
ServerError(rq) ==
    Respond(rq, 500,
            [error |-> IF rq.route = "searchFlex" /\ variant = "flexESM"
                       THEN "Server Error" ELSE "Server error"])

\* params.append(name, v), and a property added to an object literal
With(p, name, v) ==
    [k \in DOMAIN p \cup {name} |-> IF k = name THEN v ELSE p[k]]

\* the ceiling the counter is reported against
apiLimit == 150

\* 150 - requestCount, floored at zero
RemainingFloored(count) == IF count > apiLimit THEN 0 ELSE apiLimit - count

\* 150 - requestCount
Remaining(count) == apiLimit - count

\* ++requestCount, with the increment left out
SkippedIncrement(n) == n

\* ++requestCount
PreIncrement(n) == n + 1

(***************************************************************************)
(* The requests the handlers are tried on.                                 *)
(***************************************************************************)
DepartureDay == IsoDate(2025, 3, 5)
ReturnDay == IsoDate(2025, 3, 9)

\* base, and base with each of the fields absent or empty
OneMissing(base, fields) ==
    {base} \cup {[base EXCEPT ![f] = v] : f \in fields, v \in {Undefined, Str("")}}

\* req.query of GET /api/search-flights of sky and kiwi
DateQueries ==
    LET base == [from |-> Str("LHR"), to |-> Str("JFK"), date |-> DepartureDay,
                 returnDate |-> Undefined]
    IN  OneMissing(base, {"from", "to", "date"})
        \cup {[base EXCEPT !.returnDate = ReturnDay]}
        \cup {[base EXCEPT !.from = Undefined, !.to = Undefined,
                           !.date = Undefined]}

\* req.query of GET /api/search-flights of counter
CounterQueries ==
    LET base == [from |-> Str("LHR"), to |-> Str("JFK"),
                 departureDate |-> DepartureDay, returnDate |-> Undefined,
                 tripType |-> Undefined]
    IN  OneMissing(base, {"from", "to", "departureDate"})
        \cup {[base EXCEPT !.returnDate = rd, !.tripType = tt] :
                rd \in {Undefined, ReturnDay},
                tt \in {Undefined, Str("oneway")}}
        \cup {[base EXCEPT !.from = Undefined, !.to = Undefined,
                           !.departureDate = Undefined]}

\* req.body of POST /api/search
SearchRequests ==
    LET base == [from |-> Str("LHR"), to |-> Str("JFK"),
                 departureDate |-> DepartureDay, returnDate |-> Undefined]
    IN  {base, [base EXCEPT !.returnDate = ReturnDay],
         [base EXCEPT !.from = Undefined],
         [base EXCEPT !.departureDate = Str("")]}

\* req.query of the airport lookups
LookupQueries == {[query |-> v] : v \in {Undefined, Str(""), Str("lon")}}

(***************************************************************************)
(* The handlers, from the request to the first await.                      *)
(***************************************************************************)
\* GET /health of sky, counter and kiwi
Health(r) ==
    /\ variant \in {"sky", "counter", "kiwi"}
    /\ reqs[r].pc = "idle"
    /\ reqs' = [reqs EXCEPT ![r] =
         Respond(Accept("health", Obj), 200,
                 IF variant = "counter"
                 THEN [status |-> "OK", apiRequestCount |-> requestCount,
                       apiLimit |-> apiLimit]
                 ELSE [status |-> "OK"])]
    /\ UNCHANGED <<variant, apiKey, tz, requestCount, dateStr, wire>>

\* GET /api/request-count of counter
RequestCount(r) ==
    /\ variant = "counter"
    /\ reqs[r].pc = "idle"
    /\ reqs' = [reqs EXCEPT ![r] =
         Respond(Accept("requestCount", Obj), 200,
                 [count |-> requestCount, limit |-> apiLimit,
                  remaining |-> Remaining(requestCount)])]
    /\ UNCHANGED <<variant, apiKey, tz, requestCount, dateStr, wire>>

\* GET /api/autocomplete of counter
Autocomplete(r) ==
    /\ variant = "counter"
    /\ reqs[r].pc = "idle"
    /\ \E q \in LookupQueries :
         LET rq == Accept("autocomplete", q)
         IN  IF Falsy(q.query)
             THEN /\ reqs' = [reqs EXCEPT ![r] =
                       Respond(rq, 400, [error |-> "Missing query parameter"])]
                  /\ UNCHANGED requestCount
             ELSE IF ~apiKey
             THEN /\ reqs' = [reqs EXCEPT ![r] =
                       Respond(rq, 500, [error |-> "API key not configured"])]
                  /\ UNCHANGED requestCount
             ELSE /\ requestCount' = PreIncrement(requestCount)
                  /\ reqs' = [reqs EXCEPT ![r] =
                       Fetch(rq, "/flights/auto-complete", [query |-> q.query])]
    /\ UNCHANGED <<variant, apiKey, tz, dateStr, wire>>

\* GET /api/search-location of sky
SearchLocationSky(r) ==
    /\ variant = "sky"
    /\ reqs[r].pc = "idle"
    /\ \E q \in LookupQueries :
         LET rq == Accept("searchLocation", q)
         IN  reqs' = [reqs EXCEPT ![r] =
                IF Falsy(q.query)
                THEN Respond(rq, 400, [error |-> "Missing query parameter"])
                ELSE IF ~apiKey
                THEN Respond(rq, 500, [error |-> "API key not configured"])
                ELSE Fetch(rq, "/api/v1/flights/searchAirport",
                           [query |-> q.query])]
    /\ UNCHANGED <<variant, apiKey, tz, requestCount, dateStr, wire>>

\* GET /api/search-location of kiwi: the key defaults to 'picky'
SearchLocationKiwi(r) ==
    /\ variant = "kiwi"
    /\ reqs[r].pc = "idle"
    /\ \E q \in LookupQueries :
         LET rq == Accept("searchLocation", q)
         IN  reqs' = [reqs EXCEPT ![r] =
                IF Falsy(q.query)
                THEN Respond(rq, 400, [error |-> "Missing query parameter"])
                ELSE Fetch(rq, "/locations/query", [term |-> q.query])]
    /\ UNCHANGED <<variant, apiKey, tz, requestCount, dateStr, wire>>

\* GET /api/search-flights of sky
SearchFlightsSky(r) ==
    /\ variant = "sky"
    /\ reqs[r].pc = "idle"
    /\ \E q \in DateQueries :
         LET rq == Accept("searchFlights", q)
             params == [originSkyId |-> q.from, destinationSkyId |-> q.to,
                        date |-> q.date]
         IN  reqs' = [reqs EXCEPT ![r] =
                IF Falsy(q.from) \/ Falsy(q.to) \/ Falsy(q.date)
                THEN Respond(rq, 400, [error |-> "Missing required parameters"])
                ELSE IF ~apiKey
                THEN Respond(rq, 500, [error |-> "API key not configured"])
                ELSE Fetch(rq, "/api/v2/flights/searchFlights",
                           IF Falsy(q.returnDate) THEN params
                           ELSE With(params, "returnDate", q.returnDate))]
    /\ UNCHANGED <<variant, apiKey, tz, requestCount, dateStr, wire>>

\* GET /api/search-flights of counter
SearchFlightsCounter(r) ==
    /\ variant = "counter"
    /\ reqs[r].pc = "idle"
    /\ \E q \in CounterQueries :
         LET rq == Accept("searchFlights", q)
             tripType == IF q.tripType = Undefined THEN Str("return")
                         ELSE q.tripType
             endpoint == IF tripType = Str("oneway")
                         THEN "/flights/search-oneway"
                         ELSE "/flights/search-return"
             params == [originSkyId |-> q.from, destinationSkyId |-> q.to,
                        departureDate |-> q.departureDate]
         IN  IF Falsy(q.from) \/ Falsy(q.to) \/ Falsy(q.departureDate)
             THEN /\ reqs' = [reqs EXCEPT ![r] =
                       Respond(rq, 400,
                               [error |-> "Missing required parameters"])]
                  /\ UNCHANGED requestCount
             ELSE IF ~apiKey
             THEN /\ reqs' = [reqs EXCEPT ![r] =
                       Respond(rq, 500, [error |-> "API key not configured"])]
                  /\ UNCHANGED requestCount
             ELSE /\ requestCount' = PreIncrement(requestCount)
                  /\ reqs' = [reqs EXCEPT ![r] =
                       Fetch(rq, endpoint,
                             IF tripType = Str("return") /\ ~Falsy(q.returnDate)
                             THEN With(params, "returnDate", q.returnDate)
                             ELSE params)]
    /\ UNCHANGED <<variant, apiKey, tz, dateStr, wire>>

\* GET /api/search-flights of kiwi: the key defaults to 'picky'
SearchFlightsKiwi(r) ==
    /\ variant = "kiwi"
    /\ reqs[r].pc = "idle"
    /\ \E q \in DateQueries :
         LET rq == Accept("searchFlights", q)
             params == [fly_from |-> q.from, fly_to |-> q.to,
                        date_from |-> formatDate(q.date, tz),
                        date_to |-> formatDate(q.date, tz)]
         IN  reqs' = [reqs EXCEPT ![r] =
                IF Falsy(q.from) \/ Falsy(q.to) \/ Falsy(q.date)
                THEN Respond(rq, 400, [error |-> "Missing required parameters"])
                ELSE Fetch(rq, "/v2/search",
                           IF Falsy(q.returnDate) THEN params
                           ELSE With(With(params, "return_from",
                                          formatDate(q.returnDate, tz)),
                                     "return_to", formatDate(q.returnDate, tz)))]
    /\ UNCHANGED <<variant, apiKey, tz, requestCount, dateStr, wire>>

\* the URL POST /api/search and POST /api/search-flex build
RoundTripParams(from, to, departureDate, returnDate) ==
    [fromId |-> SkyId(from), toId |-> SkyId(to),
     date |-> ToJSString(departureDate),
     returnDate |-> ToJSString(returnDate)]

\* POST /api/search of flexCJS
SearchCJS(r) ==
    /\ variant = "flexCJS"
    /\ reqs[r].pc = "idle"
    /\ \E q \in SearchRequests :
         reqs' = [reqs EXCEPT ![r] =
            Fetch(Accept("search", q), "/v2/flight/round-trip",
                  RoundTripParams(q.from, q.to, q.departureDate, q.returnDate))]
    /\ UNCHANGED <<variant, apiKey, tz, requestCount, dateStr, wire>>

\* POST /api/search of flexESM
SearchESM(r) ==
    /\ variant = "flexESM"
    /\ reqs[r].pc = "idle"
    /\ \E q \in SearchRequests :
         reqs' = [reqs EXCEPT ![r] =
            Fetch(Accept("search", q), "/v2/flight/round-trip",
                  RoundTripParams(q.from, q.to, q.departureDate, q.returnDate))]
    /\ UNCHANGED <<variant, apiKey, tz, requestCount, dateStr, wire>>

(***************************************************************************)
(* POST /api/search-flex, src/server.js 227-265 and part_001 46-90.        *)
(***************************************************************************)
SeqsUpTo(S, n) == UNION {[1..k -> S] : k \in 0..n}

\* a value for..of iterates
Iterable(x) == x.t = "array"

\* req.body.departures / req.body.arrivals: absent, no array, or a list
ListValues(codes) ==
    {Undefined, Num(7)} \cup {Arr(l) : l \in SeqsUpTo(codes, MaxPairs)}

PairCount(d, a) ==
    IF Iterable(d) /\ Iterable(a) THEN Len(d.elems) * Len(a.elems) ELSE 0

\* req.body of POST /api/search-flex
FlexRequests ==
    {[departures |-> p[1], arrivals |-> p[2], departureDate |-> DepartureDay,
      returnDate |-> ReturnDay] :
        p \in {x \in ListValues({Str("A"), Str("B")})
                        \X ListValues({Str("X"), Str("Y")}) :
                 PairCount(x[1], x[2]) <= MaxPairs}}

\* where the two for..of loops stand when the outer one is at departures[i]
\* and the inner one is about to take arrivals[j]
RECURSIVE LoopNext(_, _, _, _)
LoopNext(departures, arrivals, i, j) ==
    IF i > Len(departures.elems) THEN [kind |-> "end"]
    ELSE IF ~Iterable(arrivals) THEN [kind |-> "throw"]
    ELSE IF j > Len(arrivals.elems) THEN LoopNext(departures, arrivals, i + 1, 1)
    ELSE [kind |-> "pair", i |-> i, j |-> j]

\* after the loops: the sort and the response
FlexFinish(rq) ==
    IF variant = "flexESM" /\ Len(rq.allResults) = 0
    THEN Respond(rq, 200, [results |-> <<>>])
    ELSE Respond(rq, 200, [results |-> SortByPrice(rq.allResults)])

\* the loops run on from (i, j): to the next fetch, to the end, or to the
\* TypeError of iterating a value that is not iterable
FlexRun(rq, i, j) ==
    IF ~Iterable(rq.q.departures) THEN ServerError(rq)
    ELSE LET at == LoopNext(rq.q.departures, rq.q.arrivals, i, j)
         IN  IF at.kind = "throw" THEN ServerError(rq)
             ELSE IF at.kind = "end" THEN FlexFinish(rq)
             ELSE Fetch([rq EXCEPT !.i = at.i, !.j = at.j],
                        "/v2/flight/round-trip",
                        RoundTripParams(rq.q.departures.elems[at.i],
                                        rq.q.arrivals.elems[at.j],
                                        rq.q.departureDate, rq.q.returnDate))

\* POST /api/search-flex of flexCJS
SearchFlexCJS(r) ==
    /\ variant = "flexCJS"
    /\ reqs[r].pc = "idle"
    /\ \E q \in FlexRequests :
         reqs' = [reqs EXCEPT ![r] = FlexRun(Accept("searchFlex", q), 1, 1)]
    /\ UNCHANGED <<variant, apiKey, tz, requestCount, dateStr, wire>>

\* POST /api/search-flex of flexESM
SearchFlexESM(r) ==
    /\ variant = "flexESM"
    /\ reqs[r].pc = "idle"
    /\ \E q \in FlexRequests :
         LET rq == Accept("searchFlex", q)
         IN  reqs' = [reqs EXCEPT ![r] =
                IF Falsy(q.departures) \/ Falsy(q.arrivals)
                THEN Respond(rq, 400, [error |-> "Missing airports"])
                ELSE FlexRun(rq, 1, 1)]
    /\ UNCHANGED <<variant, apiKey, tz, requestCount, dateStr, wire>>

(***************************************************************************)
(* The handlers after their awaits.                                        *)
(***************************************************************************)
\* the catch block of the handler of rq
Catch(rq) ==
    IF variant \in {"flexCJS", "flexESM"} THEN ServerError(rq)
    ELSE InternalError(rq)

Logged(rq, outcome, data) ==
    [rq EXCEPT !.log = Append(@, [outcome |-> outcome, status |-> rq.response,
                                  data |-> data, i |-> rq.i, j |-> rq.j])]

\* the handler of rq from the parsed body to its next await or its return;
\* count is requestCount at that moment
Continue(rq, data, count) ==
    LET status == rq.response
        failed == [error |-> "API request failed", details |-> data]
    IN
    IF rq.route = "searchFlex"
    THEN LET formatted ==
                formatItineraryResponse(variant, data,
                                        rq.q.departures.elems[rq.i],
                                        rq.q.arrivals.elems[rq.j])
         IN  IF formatted.threw THEN ServerError(rq)
             ELSE FlexRun([rq EXCEPT !.allResults = @ \o formatted.val],
                          rq.i, rq.j + 1)
    ELSE IF rq.route = "search"
    THEN LET formatted ==
                formatItineraryResponse(variant, data, rq.q.from, rq.q.to)
         IN  IF formatted.threw THEN ServerError(rq)
             ELSE Respond(rq, 200, [results |-> formatted.val])
    ELSE IF rq.route \in {"autocomplete", "searchLocation"}
    THEN IF ~ResponseOk(status) THEN Respond(rq, status, failed)
         ELSE Respond(rq, 200, [success |-> TRUE, data |-> data])
    ELSE IF variant = "sky"
    THEN IF ~ResponseOk(status)
         THEN Respond(rq, status, With(failed, "status", status))
         ELSE Respond(rq, 200, [success |-> TRUE, data |-> data])
    ELSE IF variant = "counter"
    THEN IF ~ResponseOk(status)
         THEN Respond(rq, status, With(failed, "status", status))
         \* data.data?.itineraries?.length on a null body
         ELSE IF IsNullish(data) THEN InternalError(rq)
         ELSE Respond(rq, 200,
                      [success |-> TRUE, data |-> data,
                       meta |-> [requestCount |-> count,
                                 requestLimit |-> apiLimit,
                                 requestsRemaining |-> Remaining(count)]])
    \* kiwi: data.message and data.data?.length on a null body
    ELSE IF ~ResponseOk(status)
         THEN IF status # 401 /\ IsNullish(data) THEN InternalError(rq)
              ELSE Respond(rq, status, With(failed, "status", status))
         ELSE IF IsNullish(data) THEN InternalError(rq)
         ELSE Respond(rq, 200, [success |-> TRUE, data |-> data])

\* fetch rejects: the network failed
FetchReject(r) ==
    /\ reqs[r].pc = "fetch"
    /\ reqs' = [reqs EXCEPT ![r] = Catch(Logged(@, "network", Undefined))]
    /\ UNCHANGED <<variant, apiKey, tz, requestCount, dateStr, wire>>

\* fetch resolves with a response of some status
FetchResolve(r) ==
    /\ reqs[r].pc = "fetch"
    /\ \E status \in StatusesOf(variant) :
         reqs' = [reqs EXCEPT ![r] = [@ EXCEPT !.pc = "json",
                                               !.response = status]]
    /\ UNCHANGED <<variant, apiKey, tz, requestCount, dateStr, wire>>

\* response.json() rejects: the body is no JSON
JsonReject(r) ==
    /\ reqs[r].pc = "json"
    /\ reqs' = [reqs EXCEPT ![r] = Catch(Logged(@, "parse", Undefined))]
    /\ UNCHANGED <<variant, apiKey, tz, requestCount, dateStr, wire>>

\* response.json() resolves and the handler runs on
JsonResolve(r) ==
    /\ reqs[r].pc = "json"
    /\ \E data \in BodiesOf(reqs[r].route, reqs[r].response) :
         reqs' = [reqs EXCEPT ![r] =
                    Continue(Logged(@, "body", data), data, requestCount)]
    /\ UNCHANGED <<variant, apiKey, tz, requestCount, dateStr, wire>>

(***************************************************************************)
(* The server: any of the five programs, requests handled concurrently.    *)
(***************************************************************************)
Variants == {"sky", "flexCJS", "counter", "flexESM", "kiwi"}

\* the zones the process may run in; only kiwi reads the local calendar
TZOffsets == {-5, 0, 1}

Init ==
    /\ variant \in Variants
    /\ apiKey \in BOOLEAN
    /\ tz \in (IF variant = "kiwi" THEN TZOffsets ELSE {0})
    /\ requestCount = 0
    /\ reqs = [r \in Slots |-> Idle]
    /\ dateStr = DepartureDay
    /\ wire = Undefined

Next ==
    \E r \in Slots :
        \/ Health(r)
        \/ RequestCount(r)
        \/ Autocomplete(r)
        \/ SearchLocationSky(r)
        \/ SearchLocationKiwi(r)
        \/ SearchFlightsSky(r)
        \/ SearchFlightsCounter(r)
        \/ SearchFlightsKiwi(r)
        \/ SearchCJS(r)
        \/ SearchESM(r)
        \/ FetchReject(r)
        \/ FetchResolve(r)
        \/ JsonReject(r)
        \/ JsonResolve(r)

Spec == Init /\ [][Next]_vars

(***************************************************************************)
(* One flexible search, on either program that has the endpoint.           *)
(***************************************************************************)
InitFlex ==
    /\ variant \in {"flexCJS", "flexESM"}
    /\ apiKey \in BOOLEAN
    /\ tz = 0
    /\ requestCount = 0
    /\ reqs = [r \in Slots |-> Idle]
    /\ dateStr = DepartureDay
    /\ wire = Undefined

NextFlex ==
    \/ SearchFlexCJS(1)
    \/ SearchFlexESM(1)
    \/ FetchReject(1)
    \/ FetchResolve(1)
    \/ JsonReject(1)
    \/ JsonResolve(1)

SpecFlex == InitFlex /\ [][NextFlex]_vars

(***************************************************************************)
(* The counter program alone, requests handled concurrently.               *)
(***************************************************************************)
InitCounter ==
    /\ variant = "counter"
    /\ apiKey \in BOOLEAN
    /\ tz = 0
    /\ requestCount = 0
    /\ reqs = [r \in Slots |-> Idle]
    /\ dateStr = DepartureDay
    /\ wire = Undefined

NextCounter ==
    \E r \in Slots :
        \/ Health(r)
        \/ RequestCount(r)
        \/ Autocomplete(r)
        \/ SearchFlightsCounter(r)
        \/ FetchReject(r)
        \/ FetchResolve(r)
        \/ JsonReject(r)
        \/ JsonResolve(r)

SpecCounter == InitCounter /\ [][NextCounter]_vars

(***************************************************************************)
(* The counter program serving one request after another, until the        *)
(* counter has passed its ceiling.                                         *)
(***************************************************************************)
\* the exchange is over and the next request arrives
Release(r) ==
    /\ reqs[r].pc = "done"
    /\ requestCount < MaxCount
    /\ reqs' = [reqs EXCEPT ![r] = Idle]
    /\ UNCHANGED <<variant, apiKey, tz, requestCount, dateStr, wire>>

NextBudget ==
    \/ Health(1)
    \/ RequestCount(1)
    \/ Autocomplete(1)
    \/ SearchFlightsCounter(1)
    \/ FetchReject(1)
    \/ FetchResolve(1)
    \/ JsonReject(1)
    \/ JsonResolve(1)
    \/ Release(1)

SpecBudget == InitCounter /\ [][NextBudget]_vars

(***************************************************************************)
(* formatDate of kiwi alone, on dates at the ends of months and years.     *)
(***************************************************************************)
IsoDates ==
    {IsoDate(y, m, d) : y \in {2024, 2025}, m \in {1, 2, 3, 12}, d \in {1, 5, 28}}
    \cup {IsoDate(y, m, DaysInMonth(y, m)) : y \in {2024, 2025}, m \in {1, 2, 3, 12}}

InitDate ==
    /\ variant = "kiwi"
    /\ apiKey \in BOOLEAN
    /\ tz \in TZOffsets
    /\ requestCount = 0
    /\ reqs = [r \in Slots |-> Idle]
    /\ dateStr \in IsoDates
    /\ wire = Undefined

\* formatDate(dateStr)
FormatDate ==
    /\ wire = Undefined
    /\ wire' = formatDate(dateStr, tz)
    /\ UNCHANGED <<variant, apiKey, tz, requestCount, reqs, dateStr>>

SpecDate == InitDate /\ [][FormatDate]_vars

(***************************************************************************)
(* Properties.                                                             *)
(***************************************************************************)
\* a request parameter that is absent or empty
Missing(x) == x = Undefined \/ x = Str("")

\* the handlers that search flights for one origin and one destination
IsSearch(rq) == rq.route \in {"searchFlights", "search"}

\* the departure date of a search request
DepartureOf(rq) ==
    IF "date" \in DOMAIN rq.q THEN rq.q.date ELSE rq.q.departureDate

MissingRequired(rq) ==
    Missing(rq.q.from) \/ Missing(rq.q.to) \/ Missing(DepartureOf(rq))

\* the handlers that call the upstream
CallsUpstream(rq) ==
    rq.route \in {"searchFlights", "search", "searchFlex", "searchLocation",
                  "autocomplete"}

\* the invocation answered exactly once, with this status
Answered(rq, status) ==
    /\ rq.pc = "done"
    /\ Len(rq.sent) = 1
    /\ rq.sent[1].status = status

\* C1: a search request without origin, destination or departure date is
\* answered 400 and no upstream call is issued for it, on every search
\* endpoint of every program.
C1_MissingParamsRejected ==
    \A r \in Slots :
        IsSearch(reqs[r]) /\ MissingRequired(reqs[r])
            => reqs[r].calls = <<>> /\ Answered(reqs[r], 400)

\* the upstream answered the k-th call of rq with a non-success status and
\* a body that parsed
UpstreamFailed(rq, k) ==
    rq.log[k].outcome = "body" /\ ~ResponseOk(rq.log[k].status)

\* C2: when the upstream answers with a non-success status, the response to
\* the caller carries that status and the upstream payload as details.
C2_UpstreamFailurePreserved ==
    \A r \in Slots :
        (reqs[r].pc = "done" /\ Len(reqs[r].log) = 1 /\ UpstreamFailed(reqs[r], 1))
            => /\ Answered(reqs[r], reqs[r].log[1].status)
               /\ "details" \in DOMAIN reqs[r].sent[1].body
               /\ reqs[r].sent[1].body.details = reqs[r].log[1].data

\* the upstream call of the k-th pair failed: a non-success status, a network
\* error or an unparsable body
PairFailed(rq, k) ==
    rq.log[k].outcome \in {"network", "parse"} \/ UpstreamFailed(rq, k)

\* the normalized itineraries of the k-th pair
PairItineraries(rq, k) ==
    formatItineraryResponse(variant, rq.log[k].data,
                            rq.q.departures.elems[rq.log[k].i],
                            rq.q.arrivals.elems[rq.log[k].j])

\* the upstream call of the k-th pair succeeded with itineraries that
\* normalize
PairSucceeded(rq, k) ==
    /\ rq.log[k].outcome = "body"
    /\ ResponseOk(rq.log[k].status)
    /\ ~PairItineraries(rq, k).threw

\* the itineraries of the first k pairs, those of the pairs in keep
RECURSIVE Gathered(_, _, _)
Gathered(rq, k, keep) ==
    IF k = 0 THEN <<>>
    ELSE Gathered(rq, k - 1, keep)
            \o (IF k \in keep THEN PairItineraries(rq, k).val ELSE <<>>)

\* s is ordered by price, cheapest first
SortedByPrice(s) == \A k \in 1..(Len(s) - 1) : s[k].price <= s[k + 1].price

\* a and b hold the same elements the same number of times
SameBag(a, b) ==
    /\ Len(a) = Len(b)
    /\ \A k \in 1..Len(a) :
           Cardinality({m \in 1..Len(a) : a[m] = a[k]})
               = Cardinality({m \in 1..Len(b) : b[m] = a[k]})

\* C3: when one pair of a flexible search fails upstream and another
\* succeeds, the response is a success whose results are exactly the
\* itineraries of the successful pairs.
C3_PairFailureSwallowed ==
    \A r \in Slots :
        LET rq == reqs[r]
            pairs == 1..Len(rq.log)
            good == {k \in pairs : PairSucceeded(rq, k)}
        IN  (/\ rq.route = "searchFlex"
             /\ rq.pc = "done"
             /\ good # {}
             /\ \E k \in pairs : PairFailed(rq, k)
             /\ \A k \in pairs : PairFailed(rq, k) \/ PairSucceeded(rq, k))
                => /\ Answered(rq, 200)
                   /\ SameBag(rq.sent[1].body.results,
                              Gathered(rq, Len(rq.log), good))

ItineraryList(data) ==
    /\ ~IsNullish(data)
    /\ ~IsNullish(Get(data, "data"))
    /\ Get(Get(data, "data"), "itineraries").t = "array"

\* C5: normalization never raises on an itinerary with absent nested
\* fields and fills in price 0, airline "Unknown" and zero stops, and a
\* malformed element of the list, a null one included, does not make the
\* request fail.
C5_MalformedItineraryTolerated ==
    /\ \A v \in {"flexCJS", "flexESM"} :
           LET out == formatItineraryResponse(v, Itineraries(Arr(<<BareItin>>)),
                                              Str("A"), Str("X"))
           IN  /\ ~out.threw
               /\ out.val[1].price = 0
               /\ out.val[1].airline = Str("Unknown")
               /\ out.val[1].stopsOutbound = Num(0)
               /\ out.val[1].stopsInbound = Num(0)
    /\ \A r \in Slots :
           LET rq == reqs[r]
           IN  (/\ rq.route = "searchFlex"
                /\ rq.pc = "done"
                /\ rq.log # <<>>
                /\ \A k \in 1..Len(rq.log) :
                       /\ rq.log[k].outcome = "body"
                       /\ ResponseOk(rq.log[k].status)
                       /\ ItineraryList(rq.log[k].data))
                   => Answered(rq, 200)

\* C6: formatDate gives DD/MM/YYYY of the calendar day it was given,
\* whatever the time zone of the process.
C6_FormatDateSameDay ==
    wire # Undefined
        => wire = Str(PadStart2(dateStr.d) \o "/" \o PadStart2(dateStr.m)
                      \o "/" \o ToString(dateStr.y))

\* C7: without an API key in the environment, an endpoint that would call
\* the upstream answers 500 and calls nothing; a request that also misses
\* required parameters is answered 400.
C7_MissingKeyIsServerError ==
    ~apiKey =>
        \A r \in Slots :
            LET rq == reqs[r]
            IN  CallsUpstream(rq)
                    => /\ rq.calls = <<>>
                       /\ IF IsSearch(rq) /\ MissingRequired(rq)
                          THEN Answered(rq, 400)
                          ELSE IF rq.route \in {"searchLocation", "autocomplete"}
                                  /\ Missing(rq.q.query)
                          THEN Answered(rq, 400)
                          ELSE Answered(rq, 500)

\* something failed while rq was handled: validation, the configuration,
\* the upstream status, the network, the body, or normalization
Failure(rq) ==
    \/ IsSearch(rq) /\ MissingRequired(rq)
    \/ CallsUpstream(rq) /\ ~apiKey
    \/ \E k \in 1..Len(rq.log) : PairFailed(rq, k)

\* C8: a handler that has returned has sent exactly one response, and every
\* failure while handling is answered with an error status and a JSON error
\* body.
C8_EveryFailureIsJsonError ==
    \A r \in Slots :
        reqs[r].pc = "done"
            => /\ Len(reqs[r].sent) = 1
               /\ Failure(reqs[r])
                    => /\ reqs[r].sent[1].status >= 400
                       /\ "error" \in DOMAIN reqs[r].sent[1].body

\* the upstream calls attempted since the process started
RECURSIVE CallsAttempted(_)
CallsAttempted(n) == IF n = 0 THEN 0 ELSE CallsAttempted(n - 1) + Len(reqs[n].calls)

\* C9: the request counter starts at 0, never decreases and always equals
\* the number of upstream calls attempted so far, however the handlers
\* interleave.
C9_CounterCountsCalls ==
    /\ requestCount = 0
    /\ [](requestCount = CallsAttempted(MaxReqs))
    /\ [][requestCount' >= requestCount]_vars

\* two handlers are suspended at their awaits, each after its call
C9_Witness ==
    /\ requestCount = 2
    /\ \E r1, r2 \in Slots :
        /\ reqs[r1].route = "autocomplete" /\ reqs[r1].pc = "json"
        /\ reqs[r2].route = "searchFlights" /\ reqs[r2].pc = "fetch"

OneWayEndpoints == {"/flights/search-oneway"}

RoundTripEndpoints == {"/flights/search-return", "/v2/flight/round-trip"}

\* the call carries the parameters of a return leg
CarriesReturn(call) ==
    "returnDate" \in DOMAIN call.params \/ "return_from" \in DOMAIN call.params

\* C10: a search is sent to the one-way endpoint or parameter set exactly
\* when the request has no return date, and to the round-trip one, with a
\* returnDate parameter, exactly when it has.
C10_EndpointFollowsReturnDate ==
    \A r \in Slots :
        IsSearch(reqs[r]) =>
            \A k \in 1..Len(reqs[r].calls) :
                LET call == reqs[r].calls[k]
                    wantsReturn == ~Missing(reqs[r].q.returnDate)
                IN  /\ call.endpoint \in OneWayEndpoints => ~wantsReturn
                    /\ call.endpoint \in RoundTripEndpoints
                        => wantsReturn /\ "returnDate" \in DOMAIN call.params
                    /\ CarriesReturn(call) <=> wantsReturn

\* the calls of rq for the pair (dep, arr)
CallsFor(rq, dep, arr) ==
    {k \in 1..Len(rq.calls) :
        /\ rq.calls[k].params.fromId = SkyId(dep)
        /\ rq.calls[k].params.toId = SkyId(arr)}

\* C11: a flexible search over the origins O and the destinations D issues
\* exactly |O| x |D| upstream calls, one for each pair of O x D and none
\* for any other pair, also when the call of some pair fails.
C11_OneCallPerPair ==
    \A r \in Slots :
        LET rq == reqs[r]
        IN  (/\ rq.route = "searchFlex"
             /\ rq.pc = "done"
             /\ Iterable(rq.q.departures)
             /\ Iterable(rq.q.arrivals))
                => LET O == {rq.q.departures.elems[i] :
                                i \in 1..Len(rq.q.departures.elems)}
                       D == {rq.q.arrivals.elems[j] :
                                j \in 1..Len(rq.q.arrivals.elems)}
                   IN  /\ Len(rq.calls) = Cardinality(O) * Cardinality(D)
                       /\ \A dep \in O, arr \in D :
                              Cardinality(CallsFor(rq, dep, arr)) = 1

\* a request of rq's route that has all it requires
ValidRequest(rq) ==
    \/ rq.route = "autocomplete" /\ ~Missing(rq.q.query)
    \/ rq.route = "searchFlights" /\ ~MissingRequired(rq)

\* C12: the ceiling of 150 is informational: whatever the counter, at or
\* above 150 too, a valid autocomplete or search request is taken at once
\* and forwarded upstream, and /api/request-count and the search meta report
\* remaining = 150 - count for the current count.
C12_CeilingInformational ==
    \A r \in Slots :
        LET rq == reqs[r]
        IN  /\ rq.pc = "idle"
                => ENABLED Autocomplete(r) /\ ENABLED SearchFlightsCounter(r)
            /\ (apiKey /\ ValidRequest(rq)) => Len(rq.calls) = 1
            /\ (rq.route = "requestCount" /\ rq.pc = "done")
                => /\ Answered(rq, 200)
                   /\ rq.sent[1].body.count = requestCount
                   /\ rq.sent[1].body.limit = 150
                   /\ rq.sent[1].body.remaining = 150 - requestCount
            /\ (rq.route = "searchFlights" /\ Answered(rq, 200))
                => /\ rq.sent[1].body.meta.requestCount = requestCount
                   /\ rq.sent[1].body.meta.requestLimit = 150
                   /\ rq.sent[1].body.meta.requestsRemaining = 150 - requestCount

\* with the counter above the ceiling a search was forwarded and answered,
\* reporting a negative remainder
C12_Witness ==
    /\ requestCount > 150
    /\ reqs[1].route = "searchFlights"
    /\ Len(reqs[1].calls) = 1
    /\ Answered(reqs[1], 200)
    /\ reqs[1].sent[1].body.meta.requestsRemaining < 0

====
